---- MODULE Spec2Model ----
(***************************************************************************)
(* Visitor photo identification of the museum server: the CLIP service     *)
(* (cosineSimilarity, findBestMatches, isConfidentMatch, the model         *)
(* singleton), the POST /:qrCode/identify handler with its transient       *)
(* upload, and the admin upload that fills the catalogue.                  *)
(*                                                                         *)
(* Numbers.  Embedding components are small integers.  A similarity score  *)
(* dot / (sqrt(magA) * sqrt(magB)) is kept exactly, as the sign of the dot *)
(* product together with the reduced fraction dot^2 / (magA * magB): the   *)
(* score is sgn * sqrt(num / den).  Two scores are the same real number    *)
(* exactly when their records are equal.  Rounding error of IEEE doubles   *)
(* is not modelled.                                                        *)
(***************************************************************************)
EXTENDS Integers, Sequences, FiniteSets, TLC

\* ------------------------------------------------------------------ bounds

\* Date.now() takes the values 0..MaxClock while requests arrive.
MaxClock == 1

\* ------------------------------------------------------- program constants

\* isConfidentMatch(score, threshold = 0.7): the default threshold is
\* ThresholdNum / ThresholdDen.
ThresholdNum == 7
ThresholdDen == 10

\* findBestMatches(visitorEmbedding, artworks, 3) in the identify route.
TopN == 3

\* --------------------------------------------------------------- arithmetic

Sign(x) == IF x > 0 THEN 1 ELSE IF x < 0 THEN -1 ELSE 0

Min(x, y) == IF x <= y THEN x ELSE y

RECURSIVE GCD(_, _)
GCD(x, y) == IF y = 0 THEN x ELSE GCD(y, x % y)

\* The real number sgn * sqrt(num / den), den > 0, in lowest terms.
MkScore(d, m) ==
  IF d = 0 THEN [sgn |-> 0, num |-> 0, den |-> 1]
  ELSE LET g == GCD(d * d, m)
       IN [sgn |-> Sign(d), num |-> (d * d) \div g, den |-> m \div g]

\* The sign of the real number s - t.
ScoreCompare(s, t) ==
  IF s.sgn # t.sgn THEN Sign(s.sgn - t.sgn)
  ELSE s.sgn * Sign(s.num * t.den - t.num * s.den)

\* The rational n / d as a score (n, d > 0).
RatioScore(n, d) == MkScore(n, d * d)

\* ------------------------------------------------------- services/clip.ts

\* What a call hands back: a value, or a thrown Error.
Returned(v) == [threw |-> FALSE, value |-> v]
Thrown(dflt) == [threw |-> TRUE, value |-> dflt]

RECURSIVE SumProducts(_, _, _)
SumProducts(a, b, i) ==
  IF i = 0 THEN 0 ELSE a[i] * b[i] + SumProducts(a, b, i - 1)

ZeroScore == MkScore(0, 1)

\* The function without its length check: the loop runs over the common
\* prefix of the two vectors.
cosineSimilarityUnchecked(embeddingA, embeddingB) ==
  LET n == Min(Len(embeddingA), Len(embeddingB))
      dotProduct == SumProducts(embeddingA, embeddingB, n)
      magnitudeA == SumProducts(embeddingA, embeddingA, n)
      magnitudeB == SumProducts(embeddingB, embeddingB, n)
  IN IF magnitudeA = 0 \/ magnitudeB = 0
     THEN Returned(ZeroScore)
     ELSE Returned(MkScore(dotProduct, magnitudeA * magnitudeB))

\* 0 / 0 in IEEE arithmetic.
NaN == [sgn |-> 0, num |-> 0, den |-> 0]

\* The function without its test of the magnitudes: a zero magnitude makes
\* the division 0 / 0.
cosineSimilarityNoZeroGuard(embeddingA, embeddingB) ==
  IF Len(embeddingA) # Len(embeddingB) THEN Thrown(ZeroScore)
  ELSE LET n == Len(embeddingA)
           dotProduct == SumProducts(embeddingA, embeddingB, n)
           magnitudeA == SumProducts(embeddingA, embeddingA, n)
           magnitudeB == SumProducts(embeddingB, embeddingB, n)
       IN IF magnitudeA = 0 \/ magnitudeB = 0
          THEN Returned(NaN)
          ELSE Returned(MkScore(dotProduct, magnitudeA * magnitudeB))

cosineSimilarity(embeddingA, embeddingB) ==
  IF Len(embeddingA) # Len(embeddingB) THEN Thrown(ZeroScore)
  ELSE LET n == Len(embeddingA)
           dotProduct == SumProducts(embeddingA, embeddingB, n)
           magnitudeA == SumProducts(embeddingA, embeddingA, n)
           magnitudeB == SumProducts(embeddingB, embeddingB, n)
       IN IF magnitudeA = 0 \/ magnitudeB = 0
          THEN Returned(ZeroScore)
          ELSE Returned(MkScore(dotProduct, magnitudeA * magnitudeB))

\* The filter as artwork.imageEmbedding alone: an empty array is truthy.
HasEmbeddingTruthy(artwork) == artwork.imageEmbedding # {}

\* An artwork's imageEmbedding is {} when the field is absent, {<<>>} for an
\* empty array and {v} for a stored vector v.
\* artwork.imageEmbedding && artwork.imageEmbedding.length > 0
HasEmbedding(artwork) ==
  \E v \in artwork.imageEmbedding : Len(v) > 0

EmbeddingOf(artwork) == CHOOSE v \in artwork.imageEmbedding : TRUE

\* The comparator a.score - b.score: an ascending sort.
SortComparatorAscending(a, b) == ScoreCompare(a.score, b.score)

\* matches.sort((a, b) => b.score - a.score): the comparator's sign.
SortComparator(a, b) == ScoreCompare(b.score, a.score)

\* An unstable sort: x goes before the elements it ties with.
RECURSIVE InsertMatchUnstable(_, _)
InsertMatchUnstable(sorted, x) ==
  IF sorted = <<>> THEN <<x>>
  ELSE IF SortComparator(Head(sorted), x) < 0
       THEN <<Head(sorted)>> \o InsertMatchUnstable(Tail(sorted), x)
       ELSE <<x>> \o sorted

\* Array.prototype.sort is stable: x goes after every element the comparator
\* does not put behind it.
RECURSIVE InsertMatch(_, _)
InsertMatch(sorted, x) ==
  IF sorted = <<>> THEN <<x>>
  ELSE IF SortComparator(Head(sorted), x) <= 0
       THEN <<Head(sorted)>> \o InsertMatch(Tail(sorted), x)
       ELSE <<x>> \o sorted

RECURSIVE SortMatches(_)
SortMatches(ms) ==
  IF ms = <<>> THEN <<>>
  ELSE InsertMatch(SortMatches(SubSeq(ms, 1, Len(ms) - 1)), ms[Len(ms)])

\* matches.slice(0, topN) for topN >= 0
SliceTop(ms, topN) == SubSeq(ms, 1, Min(topN, Len(ms)))

findBestMatches(queryEmbedding, artworks, topN) ==
  LET scorable == SelectSeq(artworks, HasEmbedding)
      sims == [i \in 1..Len(scorable) |->
                 cosineSimilarity(queryEmbedding, EmbeddingOf(scorable[i]))]
      matches == [i \in 1..Len(scorable) |->
                    [artwork |-> scorable[i], score |-> sims[i].value]]
  IN IF \E i \in 1..Len(scorable) : sims[i].threw
     THEN Thrown(<<>>)
     ELSE Returned(SliceTop(SortMatches(matches), topN))

DefaultThreshold == RatioScore(ThresholdNum, ThresholdDen)

\* score > threshold in place of score >= threshold
isConfidentMatchStrict(score, threshold) == ScoreCompare(score, threshold) > 0

isConfidentMatch(score, threshold) == ScoreCompare(score, threshold) >= 0

\* ------------------------------------------------------------ the world

\* CLIP embeddings of the images that occur (the provider is a function
\* from an image to its vector, so an image is named by that vector).
VecA == <<10, 0, 0, 0>>
VecB == <<0, 10, 0, 0>>
VecC == <<9, 1, 0, 0>>
VecQ == <<5, 5, 0, 0>>
VecT == <<7, 1, 1, 7>>
VecNeg == <<-10, 0, 0, 0>>
\* An embedding written by an earlier provider version, of another length.
VecStale == <<1, 0>>

\* Photos visitors take, and images admins upload.
VisitorPhotos == {VecA, VecQ}
AdminImages == {VecC}

MuseumIds == {"m1", "m2"}

\* Museum.qrCode (lowercase: true, unique: true)
QrCodeOf(m) == IF m = "m1" THEN "louvre-paris-1234" ELSE "prado-madrid-5678"

\* The :qrCode path parameters that arrive.
QrCodeInputs == {"Louvre-Paris-1234", "prado-madrid-5678", "gone-0000"}

\* qrCode.toLowerCase()
ToLowerCase(s) == IF s = "Louvre-Paris-1234" THEN "louvre-paris-1234" ELSE s

Requests == {"r1", "r2"}
Uploads == {"u1"}

NoFile == "none"
Paths == 0..MaxClock

Doc(id, m, emb) == [id |-> id, museumId |-> m, imageEmbedding |-> emb]

\* The artworks collection when the server starts, in insertion order.
InitCatalogs ==
  { << Doc(1, "m1", {VecA}), Doc(2, "m1", {VecB}), Doc(3, "m1", {VecC}),
       Doc(4, "m2", {VecT}), Doc(5, "m2", {VecNeg}) >>,
    << Doc(1, "m1", {}), Doc(2, "m1", {<<>>}), Doc(3, "m2", {VecA}),
       Doc(4, "m2", {VecStale}) >> }

VARIABLES
  now,        \* Date.now()
  fs,         \* uploads/visitor_temp: path -> the request whose photo is there
  museums,    \* ids of the documents of the museums collection
  artworks,   \* the artworks collection, in insertion order
  clipModel,  \* the module-level singleton of services/clip.ts
  reqs,       \* the POST /:qrCode/identify requests
  ups,        \* the POST /api/admin/upload requests
  pure,       \* arguments and result of a direct call of a clip.ts function
  dels,       \* the DELETE /api/museums/:id requests
  vision      \* a call of recognizeArtworkFromImage

vars == <<now, fs, museums, artworks, clipModel, reqs, ups, pure, dels, vision>>

\* ------------------------------------------------------------- responses

Response(status, fields, success, confident, error, museum, best, alts, total) ==
  [status |-> status, fields |-> fields, success |-> success,
   confident |-> confident, error |-> error, museum |-> museum,
   bestMatch |-> best, alternatives |-> alts, totalArtworks |-> total]

NoResponse == Response(0, {}, FALSE, FALSE, "", "", <<>>, <<>>, 0)

\* res.status(status).json({ error })
ErrorResponse(status, message) ==
  Response(status, {"error"}, FALSE, FALSE, message, "", <<>>, <<>>, 0)

\* res.json({ success: false, error, museum })
NoCandidatesResponse(m) ==
  Response(200, {"success", "error", "museum"}, FALSE, FALSE,
           "No artworks with embeddings found in this museum", m, <<>>, <<>>, 0)

\* Math.round(score * 100): the largest p with p - 1/2 <= 100 * score,
\* that is (2p - 1) * sqrt(den) <= 200 * sgn * sqrt(num).
RoundPercent(score) ==
  LET AtMost(p) ==
        LET l == 2 * p - 1
            r == 200 * score.sgn
        IN IF l <= 0 /\ r >= 0 THEN TRUE
           ELSE IF l >= 0 /\ r <= 0 THEN FALSE
           ELSE IF l > 0 THEN l * l * score.den <= r * r * score.num
           ELSE l * l * score.den >= r * r * score.num
  IN CHOOSE p \in -100..100 : AtMost(p) /\ (p = 100 \/ ~AtMost(p + 1))

formatArtwork(artwork, score) ==
  [id |-> artwork.id, matchScore |-> RoundPercent(score)]

\* The response with bestMatch given only for a confident match and the
\* whole ranking as alternatives.
MatchResponseBestIfConfident(m, confident, matches, total) ==
  Response(200,
           {"success", "confident", "museum", "bestMatch", "alternatives",
            "totalArtworks"},
           TRUE, confident, "", m,
           IF Len(matches) > 0 /\ confident
             THEN <<formatArtwork(matches[1].artwork, matches[1].score)>>
             ELSE <<>>,
           [i \in 1..Len(matches) |->
              formatArtwork(matches[i].artwork, matches[i].score)],
           total)

\* res.json({ success: true, confident, museum, bestMatch, alternatives,
\*            totalArtworks })
MatchResponse(m, confident, matches, total) ==
  Response(200,
           {"success", "confident", "museum", "bestMatch", "alternatives",
            "totalArtworks"},
           TRUE, confident, "", m,
           IF Len(matches) > 0
             THEN <<formatArtwork(matches[1].artwork, matches[1].score)>>
             ELSE <<>>,
           [i \in 1..(Len(matches) - 1) |->
              formatArtwork(matches[i + 1].artwork, matches[i + 1].score)],
           total)

\* ------------------------------------------------------------ initial state

IdleRequest ==
  [pc |-> "idle", qrCode |-> "", hasFile |-> FALSE, photo |-> <<>>,
   filePath |-> {}, tempFilePath |-> {}, museum |-> "", artworks |-> <<>>,
   visitorEmbedding |-> <<>>, matches |-> <<>>, compared |-> {},
   embedFailed |-> FALSE, cleanup |-> "none", response |-> NoResponse,
   steps |-> <<>>, disconnected |-> FALSE]

IdleUpload ==
  [pc |-> "idle", hasFile |-> FALSE, museumId |-> "", image |-> <<>>,
   imageEmbedding |-> <<>>, status |-> 0]

\* A DELETE /api/museums/:id request: artworkCount is what countDocuments
\* returned.
IdleDelete ==
  [pc |-> "idle", museumId |-> "", artworkCount |-> 0, status |-> 0]

Deletes == {"d1"}

\* The vision providers in the order recognizeArtworkFromImage tries them.
Providers == <<"claude", "openai", "huggingface">>

\* A call of recognizeArtworkFromImage(imageDiskPath): keys holds the
\* providers whose API key is set in process.env, readable says whether
\* fs.readFileSync(imageDiskPath) succeeds; attempts and failed record the
\* provider branches entered and those that gave no result.
\* fileName is the base name of imageDiskPath; result names the provider
\* whose branch returned and title is the title of the VisionResult.
VisionIdle ==
  [pc |-> "off", keys |-> {}, readable |-> TRUE, fileName |-> "",
   attempts |-> <<>>, failed |-> {}, result |-> "", title |-> "",
   threw |-> FALSE]

PureIdle ==
  [stage |-> "off", a |-> <<>>, b |-> <<>>, artworks |-> <<>>, topN |-> 0,
   sim |-> Returned(ZeroScore), ranked |-> Returned(<<>>)]

InitWorld ==
  /\ now = 0
  /\ fs = [p \in Paths |-> NoFile]
  /\ museums = MuseumIds
  /\ artworks \in InitCatalogs
  /\ clipModel = "null"
  /\ reqs = [r \in Requests |-> IdleRequest]
  /\ ups = [u \in Uploads |-> IdleUpload]
  /\ dels = [d \in Deletes |-> IdleDelete]

Init == InitWorld /\ pure = PureIdle /\ vision = VisionIdle

\* ------------------------------------------------------------------ time

\* The clock is read only when a photo is stored, so it advances only while
\* a request is still to arrive.
Tick ==
  /\ now < MaxClock
  /\ \E r \in Requests : reqs[r].pc = "idle"
  /\ now' = now + 1
  /\ UNCHANGED <<fs, museums, artworks, clipModel, reqs, ups, pure, dels, vision>>

\* ------------------------------------- routes/visitor.ts: POST /:qrCode/identify

\* fs.existsSync(path) for an optional path
ExistsSync(path) == \E p \in path : fs[p] # NoFile

\* Finish with the unlink on the success path only: an error response leaves
\* the handler without the finally block.
FinishCleanupOnSuccessOnly(r, rec, resp) ==
  \E unlinkOk \in BOOLEAN :
    LET attempt == ExistsSync(rec.tempFilePath) /\ resp.status # 500
    IN /\ fs' = IF attempt /\ unlinkOk
                  THEN [p \in Paths |->
                          IF p \in rec.tempFilePath THEN NoFile ELSE fs[p]]
                  ELSE fs
       /\ reqs' = [reqs EXCEPT ![r] =
                     [rec EXCEPT !.pc = "done", !.response = resp,
                                 !.cleanup = IF ~attempt THEN "skipped"
                                             ELSE IF unlinkOk THEN "deleted"
                                             ELSE "failed",
                                 !.steps = rec.steps \o <<"respond", "cleanup">>]]

\* Finish with a cleanup that empties uploads/visitor_temp.
FinishPurgeTempDir(r, rec, resp) ==
  \E unlinkOk \in BOOLEAN :
    LET attempt == ExistsSync(rec.tempFilePath)
    IN /\ fs' = IF attempt /\ unlinkOk
                  THEN [p \in Paths |-> NoFile]
                  ELSE fs
       /\ reqs' = [reqs EXCEPT ![r] =
                     [rec EXCEPT !.pc = "done", !.response = resp,
                                 !.cleanup = IF ~attempt THEN "skipped"
                                             ELSE IF unlinkOk THEN "deleted"
                                             ELSE "failed",
                                 !.steps = rec.steps \o <<"respond", "cleanup">>]]

\* Finish with the unlink before the response and outside any try block: an
\* unlink error reaches the handler's catch, which answers 500 with
\* the error's message.
FinishEscalatesCleanupError(r, rec, resp) ==
  \E unlinkOk \in BOOLEAN :
    LET attempt == ExistsSync(rec.tempFilePath)
    IN /\ fs' = IF attempt /\ unlinkOk
                  THEN [p \in Paths |->
                          IF p \in rec.tempFilePath THEN NoFile ELSE fs[p]]
                  ELSE fs
       /\ reqs' = [reqs EXCEPT ![r] =
                     [rec EXCEPT !.pc = "done",
                                 !.response =
                                   IF attempt /\ ~unlinkOk
                                     THEN ErrorResponse(500, "unlink failed")
                                     ELSE resp,
                                 !.cleanup = IF ~attempt THEN "skipped"
                                             ELSE IF unlinkOk THEN "deleted"
                                             ELSE "failed",
                                 !.steps = rec.steps \o <<"cleanup", "respond">>]]

\* res.json(...) or res.status(...).json(...), then the finally block, run in
\* the same turn as the response that precedes it:
\*   if (tempFilePath && fs.existsSync(tempFilePath)) {
\*     try { fs.unlinkSync(tempFilePath) } catch (cleanupError) { log } }
\* unlinkSync may throw (unlinkOk = FALSE); the error is logged.
Finish(r, rec, resp) ==
  \E unlinkOk \in BOOLEAN :
    LET attempt == ExistsSync(rec.tempFilePath)
    IN /\ fs' = IF attempt /\ unlinkOk
                  THEN [p \in Paths |->
                          IF p \in rec.tempFilePath THEN NoFile ELSE fs[p]]
                  ELSE fs
       /\ reqs' = [reqs EXCEPT ![r] =
                     [rec EXCEPT !.pc = "done", !.response = resp,
                                 !.cleanup = IF ~attempt THEN "skipped"
                                             ELSE IF unlinkOk THEN "deleted"
                                             ELSE "failed",
                                 !.steps = rec.steps \o <<"respond", "cleanup">>]]

\* multer's diskStorage writes the photo to visitor_temp/visitor_<Date.now()>
\* and the handler runs up to its first await, connectToDatabase().
\* The requests are named in their order of arrival.
Receive(r) ==
  /\ reqs[r].pc = "idle"
  /\ r = "r2" => reqs["r1"].pc # "idle"
  /\ \E qr \in QrCodeInputs, hasFile \in BOOLEAN, photo \in VisitorPhotos :
       /\ reqs' = [reqs EXCEPT ![r] =
                     [@ EXCEPT !.pc = "connect", !.qrCode = qr,
                               !.hasFile = hasFile,
                               !.photo = IF hasFile THEN photo ELSE <<>>,
                               !.filePath = IF hasFile THEN {now} ELSE {},
                               !.steps = <<"acquire">>]]
       /\ fs' = IF hasFile THEN [fs EXCEPT ![now] = r] ELSE fs
  /\ UNCHANGED <<now, museums, artworks, clipModel, ups, pure, dels, vision>>

\* await connectToDatabase() settles; then the file check, tempFilePath =
\* file.path, and Museum.findOne is issued.
Connect(r) ==
  /\ reqs[r].pc = "connect"
  /\ \E ok \in BOOLEAN :
       IF ~ok
         THEN Finish(r, reqs[r], ErrorResponse(500, "database unavailable"))
       ELSE IF ~reqs[r].hasFile
         THEN Finish(r, reqs[r], ErrorResponse(400, "No photo uploaded"))
       ELSE /\ reqs' = [reqs EXCEPT ![r] =
                          [@ EXCEPT !.pc = "findMuseum",
                                    !.tempFilePath = reqs[r].filePath]]
            /\ UNCHANGED fs
  /\ UNCHANGED <<now, museums, artworks, clipModel, ups, pure, dels, vision>>

\* Museum.findOne() without its filter: any museum matches.
FindMuseumByQrUnfiltered(qrCode) == museums

\* Museum.findOne({ qrCode: qrCode.toLowerCase() })
FindMuseumByQr(qrCode) ==
  {m \in museums : QrCodeOf(m) = ToLowerCase(qrCode)}

\* await Museum.findOne(...) settles; Artwork.find is issued.
FindMuseum(r) ==
  /\ reqs[r].pc = "findMuseum"
  /\ \E ok \in BOOLEAN :
       LET found == FindMuseumByQr(reqs[r].qrCode)
       IN IF ~ok
            THEN Finish(r, reqs[r], ErrorResponse(500, "database unavailable"))
          ELSE IF found = {}
            THEN Finish(r, reqs[r], ErrorResponse(404, "Museum not found"))
          ELSE /\ reqs' = [reqs EXCEPT ![r] =
                             [@ EXCEPT !.pc = "findArtworks",
                                       !.museum = CHOOSE m \in found : TRUE,
                                       !.steps = Append(@, "resolveScope")]]
               /\ UNCHANGED fs
  /\ UNCHANGED <<now, museums, artworks, clipModel, ups, pure, dels, vision>>

\* The query without its museumId condition.
FindArtworksQueryAnyMuseum(doc, m) ==
  /\ doc.imageEmbedding # {}
  /\ doc.imageEmbedding # {<<>>}

\* The query without $ne: [].
FindArtworksQueryExistsOnly(doc, m) ==
  /\ doc.museumId = m
  /\ doc.imageEmbedding # {}

\* Artwork.find({ museumId: museum._id,
\*                imageEmbedding: { $exists: true, $ne: [] } })
FindArtworksQuery(doc, m) ==
  /\ doc.museumId = m
  /\ doc.imageEmbedding # {}
  /\ doc.imageEmbedding # {<<>>}

FindArtworks(m) ==
  LET Matches(doc) == FindArtworksQuery(doc, m)
  IN SelectSeq(artworks, Matches)

\* The handler with the embedding generated before the test of
\* artworks.length: the provider is invoked for an empty result too.
LoadCandidatesEmbedFirst(r) ==
  /\ reqs[r].pc = "findArtworks"
  /\ \E ok \in BOOLEAN :
       LET found == FindArtworks(reqs[r].museum)
           rec == [reqs[r] EXCEPT !.artworks = found,
                                  !.steps = Append(@, "loadCandidates")]
       IN IF ~ok
            THEN Finish(r, reqs[r], ErrorResponse(500, "database unavailable"))
          ELSE IF ~ExistsSync(rec.tempFilePath)
            THEN Finish(r, [rec EXCEPT !.embedFailed = TRUE],
                        ErrorResponse(500, "Image file not found"))
          ELSE /\ reqs' = [reqs EXCEPT ![r] =
                             [rec EXCEPT !.pc = IF clipModel = "null"
                                                  THEN "loadModel"
                                                  ELSE "inference"]]
               /\ UNCHANGED fs
  /\ UNCHANGED <<now, museums, artworks, clipModel, ups, pure, dels, vision>>

\* await Artwork.find(...) settles; on a non-empty result
\* generateImageEmbedding(tempFilePath) runs up to its first await:
\* the existsSync check and loadCLIPModel's test of the singleton.
LoadCandidates(r) ==
  /\ reqs[r].pc = "findArtworks"
  /\ \E ok \in BOOLEAN :
       LET found == FindArtworks(reqs[r].museum)
           rec == [reqs[r] EXCEPT !.artworks = found,
                                  !.steps = Append(@, "loadCandidates")]
       IN IF ~ok
            THEN Finish(r, reqs[r], ErrorResponse(500, "database unavailable"))
          ELSE IF Len(found) = 0
            THEN Finish(r, rec, NoCandidatesResponse(rec.museum))
          ELSE IF ~ExistsSync(rec.tempFilePath)
            THEN Finish(r, [rec EXCEPT !.embedFailed = TRUE],
                        ErrorResponse(500, "Image file not found"))
          ELSE /\ reqs' = [reqs EXCEPT ![r] =
                             [rec EXCEPT !.pc = IF clipModel = "null"
                                                  THEN "loadModel"
                                                  ELSE "inference"]]
               /\ UNCHANGED fs
  /\ UNCHANGED <<now, museums, artworks, clipModel, ups, pure, dels, vision>>

\* loadCLIPModel caching what it has when pipeline(...) rejects: the
\* singleton is set although the load failed.
LoadModelCachesOnFailure(r) ==
  /\ reqs[r].pc = "loadModel"
  /\ \E ok \in BOOLEAN :
       IF ok
         THEN /\ clipModel' = "loaded"
              /\ reqs' = [reqs EXCEPT ![r].pc = "inference"]
              /\ UNCHANGED fs
         ELSE /\ Finish(r, [reqs[r] EXCEPT !.embedFailed = TRUE],
                        ErrorResponse(500, "model load failed"))
              /\ clipModel' = "loaded"
  /\ UNCHANGED <<now, museums, artworks, ups, pure, dels, vision>>

\* clipModel = await pipeline(...) settles inside loadCLIPModel.
LoadModel(r) ==
  /\ reqs[r].pc = "loadModel"
  /\ \E ok \in BOOLEAN :
       IF ok
         THEN /\ clipModel' = "loaded"
              /\ reqs' = [reqs EXCEPT ![r].pc = "inference"]
              /\ UNCHANGED fs
         ELSE /\ Finish(r, [reqs[r] EXCEPT !.embedFailed = TRUE],
                        ErrorResponse(500, "model load failed"))
              /\ UNCHANGED clipModel
  /\ UNCHANGED <<now, museums, artworks, ups, pure, dels, vision>>

\* The artworks findBestMatches hands to cosineSimilarity: the scorable ones
\* up to the first whose comparison throws.
ComparedIds(queryEmbedding, candidates) ==
  LET scorable == SelectSeq(candidates, HasEmbedding)
      Throws(i) ==
        cosineSimilarity(queryEmbedding, EmbeddingOf(scorable[i])).threw
  IN {scorable[i].id : i \in {j \in 1..Len(scorable) :
                                \A k \in 1..(j - 1) : ~Throws(k)}}

\* The handler from the embedding to res.json: lines 129-164.
Identified(rec, embedding) ==
  LET ranked == findBestMatches(embedding, rec.artworks, TopN)
      matches == ranked.value
      confident == Len(matches) > 0
                   /\ isConfidentMatch(matches[1].score, DefaultThreshold)
  IN [rec |-> [rec EXCEPT !.visitorEmbedding = embedding,
                          !.matches = matches,
                          !.compared = ComparedIds(embedding, rec.artworks),
                          !.steps = @ \o (IF ranked.threw
                                            THEN <<"embed">>
                                            ELSE <<"embed", "rank", "classify">>)],
      resp |-> IF ranked.threw
                 THEN ErrorResponse(500, "Embeddings must have the same dimensions")
                 ELSE MatchResponse(rec.museum, confident, matches,
                                    Len(rec.artworks))]

\* await model(imagePath) settles: the provider read the file that is at the
\* path now, or failed.  Then ranking, classification, response, cleanup.
Inference(r) ==
  /\ reqs[r].pc = "inference"
  /\ \E ok \in BOOLEAN :
       LET path == CHOOSE p \in reqs[r].tempFilePath : TRUE
       IN IF ok /\ fs[path] # NoFile
            THEN LET out == Identified(reqs[r], reqs[fs[path]].photo)
                 IN Finish(r, out.rec, out.resp)
            ELSE Finish(r, [reqs[r] EXCEPT !.embedFailed = TRUE],
                        ErrorResponse(500, "embedding failed"))
  /\ UNCHANGED <<now, museums, artworks, clipModel, ups, pure, dels, vision>>

\* The client closes the connection while the handler runs.  The route
\* registers no 'close' or 'aborted' listener and never reads req.aborted or
\* res.writableEnded: the handler goes on, and what it later writes to the
\* response is dropped by the socket.
Disconnect(r) ==
  /\ reqs[r].pc \notin {"idle", "done"}
  /\ ~reqs[r].disconnected
  /\ reqs' = [reqs EXCEPT ![r].disconnected = TRUE]
  /\ UNCHANGED <<now, fs, museums, artworks, clipModel, ups, pure, dels, vision>>

Identify(r) ==
  \/ Receive(r)
  \/ Connect(r)
  \/ FindMuseum(r)
  \/ LoadCandidates(r)
  \/ LoadModel(r)
  \/ Inference(r)

\* ------------------------------------------- routes/admin.ts: POST /upload

\* Artwork.create({ museumId, imageEmbedding:
\*   imageEmbedding.length > 0 ? imageEmbedding : undefined, ... }).
\* The schema path imageEmbedding: { type: [Number] } is a mongoose array,
\* which defaults to [] when no value is given.
NewArtwork(id, m, imageEmbedding) ==
  Doc(id, m, IF Len(imageEmbedding) > 0 THEN {imageEmbedding} ELSE {<<>>})

FinishUpload(u, status) ==
  ups' = [ups EXCEPT ![u] = [@ EXCEPT !.pc = "done", !.status = status]]

\* multer stores the image under uploads/ and the handler runs up to
\* await connectToDatabase().
UploadReceive(u) ==
  /\ ups[u].pc = "idle"
  /\ \E hasFile \in BOOLEAN, m \in MuseumIds \cup {"", "m9"}, image \in AdminImages :
       /\ hasFile \/ m = ""
       /\ ups' = [ups EXCEPT ![u] =
                    [@ EXCEPT !.pc = "connect", !.hasFile = hasFile,
                              !.museumId = m, !.image = image]]
  /\ UNCHANGED <<now, fs, museums, artworks, clipModel, reqs, pure, dels, vision>>

\* await connectToDatabase() settles; the checks of file and museumId;
\* Museum.findById is issued.
UploadConnect(u) ==
  /\ ups[u].pc = "connect"
  /\ \E ok \in BOOLEAN :
       IF ~ok THEN FinishUpload(u, 500)
       ELSE IF ~ups[u].hasFile \/ ups[u].museumId = "" THEN FinishUpload(u, 400)
       ELSE ups' = [ups EXCEPT ![u].pc = "findMuseum"]
  /\ UNCHANGED <<now, fs, museums, artworks, clipModel, reqs, pure, dels, vision>>

\* await Museum.findById(museumId) settles; generateImageEmbedding(absPath)
\* runs up to its first await.
UploadFindMuseum(u) ==
  /\ ups[u].pc = "findMuseum"
  /\ \E ok \in BOOLEAN :
       IF ~ok THEN FinishUpload(u, 500)
       ELSE IF ups[u].museumId \notin museums THEN FinishUpload(u, 404)
       ELSE ups' = [ups EXCEPT ![u].pc = IF clipModel = "null"
                                           THEN "loadModel" ELSE "inference"]
  /\ UNCHANGED <<now, fs, museums, artworks, clipModel, reqs, pure, dels, vision>>

\* clipModel = await pipeline(...) settles; a failure is caught by the
\* upload handler, which goes on with imageEmbedding = [].
UploadLoadModel(u) ==
  /\ ups[u].pc = "loadModel"
  /\ \E ok \in BOOLEAN :
       IF ok
         THEN /\ clipModel' = "loaded"
              /\ ups' = [ups EXCEPT ![u].pc = "inference"]
         ELSE /\ ups' = [ups EXCEPT ![u].pc = "create"]
              /\ UNCHANGED clipModel
  /\ UNCHANGED <<now, fs, museums, artworks, reqs, pure, dels, vision>>

\* await model(imagePath) settles.
UploadInference(u) ==
  /\ ups[u].pc = "inference"
  /\ \E ok \in BOOLEAN :
       ups' = [ups EXCEPT ![u] =
                 [@ EXCEPT !.pc = "create",
                           !.imageEmbedding = IF ok THEN ups[u].image ELSE <<>>]]
  /\ UNCHANGED <<now, fs, museums, artworks, clipModel, reqs, pure, dels, vision>>

\* Recognition, Wikipedia, translation and audio touch nothing modelled
\* here and are caught where they can fail; then await Artwork.create(...).
UploadCreate(u) ==
  /\ ups[u].pc = "create"
  /\ \E ok \in BOOLEAN :
       IF ok
         THEN /\ artworks' = Append(artworks,
                               NewArtwork(Len(artworks) + 1, ups[u].museumId,
                                          ups[u].imageEmbedding))
              /\ FinishUpload(u, 200)
         ELSE /\ FinishUpload(u, 500)
              /\ UNCHANGED artworks
  /\ UNCHANGED <<now, fs, museums, clipModel, reqs, pure, dels, vision>>

Upload(u) ==
  \/ UploadReceive(u)
  \/ UploadConnect(u)
  \/ UploadFindMuseum(u)
  \/ UploadLoadModel(u)
  \/ UploadInference(u)
  \/ UploadCreate(u)

\* ------------------------------------- routes/museums.ts: DELETE /:id

FinishDelete(d, status) ==
  dels' = [dels EXCEPT ![d] = [@ EXCEPT !.pc = "done", !.status = status]]

\* The request arrives and the handler runs up to await connectToDatabase().
DeleteReceive(d) ==
  /\ dels[d].pc = "idle"
  /\ \E m \in MuseumIds \cup {"m9"} :
       dels' = [dels EXCEPT ![d] = [@ EXCEPT !.pc = "connect", !.museumId = m]]
  /\ UNCHANGED <<now, fs, museums, artworks, clipModel, reqs, ups, pure, vision>>

\* await connectToDatabase() settles; Museum.findById(req.params.id) is
\* issued.
DeleteConnect(d) ==
  /\ dels[d].pc = "connect"
  /\ \E ok \in BOOLEAN :
       IF ok THEN dels' = [dels EXCEPT ![d].pc = "findMuseum"]
       ELSE FinishDelete(d, 500)
  /\ UNCHANGED <<now, fs, museums, artworks, clipModel, reqs, ups, pure, vision>>

\* await Museum.findById(...) settles: 404 without a museum, else
\* Artwork.countDocuments({ museumId: museum._id }) is issued.
DeleteFindMuseum(d) ==
  /\ dels[d].pc = "findMuseum"
  /\ \E ok \in BOOLEAN :
       IF ~ok THEN FinishDelete(d, 500)
       ELSE IF dels[d].museumId \notin museums THEN FinishDelete(d, 404)
       ELSE dels' = [dels EXCEPT ![d].pc = "countArtworks"]
  /\ UNCHANGED <<now, fs, museums, artworks, clipModel, reqs, ups, pure, vision>>

\* Artwork.countDocuments({ museumId })
CountDocuments(m) ==
  Cardinality({i \in 1..Len(artworks) : artworks[i].museumId = m})

\* await Artwork.countDocuments(...) settles: 400 when artworkCount > 0,
\* else Museum.findByIdAndDelete(req.params.id) is issued.
DeleteCountArtworks(d) ==
  /\ dels[d].pc = "countArtworks"
  /\ \E ok \in BOOLEAN :
       LET artworkCount == CountDocuments(dels[d].museumId)
       IN IF ~ok THEN FinishDelete(d, 500)
          ELSE IF artworkCount > 0
            THEN dels' = [dels EXCEPT ![d] =
                            [@ EXCEPT !.pc = "done", !.status = 400,
                                      !.artworkCount = artworkCount]]
          ELSE dels' = [dels EXCEPT ![d] =
                          [@ EXCEPT !.pc = "delete",
                                    !.artworkCount = artworkCount]]
  /\ UNCHANGED <<now, fs, museums, artworks, clipModel, reqs, ups, pure, vision>>

\* await Museum.findByIdAndDelete(...) settles; res.json({ success: true }).
DeleteRemove(d) ==
  /\ dels[d].pc = "delete"
  /\ \E ok \in BOOLEAN :
       IF ok
         THEN /\ museums' = museums \ {dels[d].museumId}
              /\ FinishDelete(d, 200)
         ELSE /\ FinishDelete(d, 500)
              /\ UNCHANGED museums
  /\ UNCHANGED <<now, fs, artworks, clipModel, reqs, ups, pure, vision>>

DeleteMuseum(d) ==
  \/ DeleteReceive(d)
  \/ DeleteConnect(d)
  \/ DeleteFindMuseum(d)
  \/ DeleteCountArtworks(d)
  \/ DeleteRemove(d)

\* The artworks collection of a server whose museums are new: empty, or
\* with one artwork.
AdminCatalogs == {<<>>, <<Doc(1, "m1", {VecA})>>}

InitAdmin ==
  /\ now = 0
  /\ fs = [p \in Paths |-> NoFile]
  /\ museums = MuseumIds
  /\ artworks \in AdminCatalogs
  /\ clipModel = "null"
  /\ reqs = [r \in Requests |-> IdleRequest]
  /\ ups = [u \in Uploads |-> IdleUpload]
  /\ dels = [d \in Deletes |-> IdleDelete]
  /\ pure = PureIdle
  /\ vision = VisionIdle

\* ------------------------------ services/vision.ts: recognizeArtworkFromImage

\* recognizeArtworkFromImage is called: the keys found in process.env and
\* whether the image file can be read.
FileNames == {"car_01.jpg", "mona_lisa.jpg", "building.jpg", "img_01.jpg"}

VisionCalls ==
  {[VisionIdle EXCEPT !.pc = "claude", !.keys = k, !.readable = rd,
                      !.fileName = f]
     : k \in SUBSET {"claude", "openai", "huggingface"}, rd \in BOOLEAN,
       f \in FileNames}

\* getMockAnalysis(imagePath): the analysis is chosen by what the lower-cased
\* file name includes (car, vehicle, auto; paint, art, mona; building,
\* architecture), the generic one otherwise.
getMockAnalysis(fileName) ==
  IF fileName = "car_01.jpg"
    THEN "Mercedes-AMG GLE 63 S Coupe - Modern Automotive Design"
  ELSE IF fileName = "mona_lisa.jpg"
    THEN "Portrait in Renaissance Style"
  ELSE IF fileName = "building.jpg"
    THEN "Gothic Cathedral Architecture"
  ELSE "Contemporary Visual Art or Cultural Artifact"

InitVision ==
  /\ now = 0
  /\ fs = [p \in Paths |-> NoFile]
  /\ museums = MuseumIds
  /\ artworks = <<>>
  /\ clipModel = "null"
  /\ reqs = [r \in Requests |-> IdleRequest]
  /\ ups = [u \in Uploads |-> IdleUpload]
  /\ dels = [d \in Deletes |-> IdleDelete]
  /\ pure = PureIdle
  /\ vision \in VisionCalls

\* if (anthropicKey) { try { readFileSync; await client.messages.create;
\*   a text block returns (parsed JSON or the text as description) }
\*   catch { fall through } }.  A response without a text block leaves the
\* try without returning.
TryClaude ==
  /\ vision.pc = "claude"
  /\ IF "claude" \notin vision.keys
       THEN vision' = [vision EXCEPT !.pc = "openai"]
     ELSE \E outcome \in {"json", "text", "noText", "error"} :
            /\ ~vision.readable => outcome = "error"
            /\ vision' =
                 IF outcome \in {"json", "text"}
                   THEN [vision EXCEPT !.pc = "done", !.result = "claude",
                                       !.title = IF outcome = "json"
                                                   THEN "parsed"
                                                   ELSE "AI Analysis",
                                       !.attempts = Append(@, "claude")]
                   ELSE [vision EXCEPT !.pc = "openai",
                                       !.attempts = Append(@, "claude"),
                                       !.failed = @ \cup {"claude"}]
  /\ UNCHANGED <<now, fs, museums, artworks, clipModel, reqs, ups, pure, dels>>

\* if (openaiKey) { new OpenAI; encodeImageToDataUrl(imageDiskPath), which
\*   reads the file, outside the try; try { await
\*   client.chat.completions.create; return parsed JSON or the text }
\*   catch { fall through } }
TryOpenAI ==
  /\ vision.pc = "openai"
  /\ IF "openai" \notin vision.keys
       THEN vision' = [vision EXCEPT !.pc = "huggingface"]
     ELSE IF ~vision.readable
       THEN vision' = [vision EXCEPT !.pc = "done", !.threw = TRUE,
                                     !.attempts = Append(@, "openai"),
                                     !.failed = @ \cup {"openai"}]
     ELSE \E outcome \in {"json", "text", "error"} :
            vision' =
              IF outcome \in {"json", "text"}
                THEN [vision EXCEPT !.pc = "done", !.result = "openai",
                                    !.title = IF outcome = "json"
                                                THEN "parsed"
                                                ELSE "AI Analysis",
                                    !.attempts = Append(@, "openai")]
                ELSE [vision EXCEPT !.pc = "huggingface",
                                    !.attempts = Append(@, "openai"),
                                    !.failed = @ \cup {"openai"}]
  /\ UNCHANGED <<now, fs, museums, artworks, clipModel, reqs, ups, pure, dels>>

\* if (huggingFaceKey) { try { hfResult = await recognizeWithHuggingFace;
\*   return { title: hfResult.title || 'Unknown', ... } } catch { ... } }.
\* recognizeWithHuggingFace catches every error itself and returns its
\* placeholder ('Unknown', 'Unable to analyze image with Hugging Face',
\* confidence 0), so the branch returns in both cases.
TryHuggingFace ==
  /\ vision.pc = "huggingface"
  /\ IF "huggingface" \notin vision.keys
       THEN vision' = [vision EXCEPT !.pc = "mock"]
     ELSE \E outcome \in {"result", "error"} :
            /\ ~vision.readable => outcome = "error"
            /\ vision' =
                 IF outcome = "result"
                   THEN [vision EXCEPT !.pc = "done", !.result = "huggingface",
                                       !.title = "caption",
                                       !.attempts = Append(@, "huggingface")]
                   ELSE [vision EXCEPT !.pc = "done",
                                       !.result = "huggingface",
                                       !.title = "Unknown",
                                       !.attempts = Append(@, "huggingface"),
                                       !.failed = @ \cup {"huggingface"}]
  /\ UNCHANGED <<now, fs, museums, artworks, clipModel, reqs, ups, pure, dels>>

\* return getMockAnalysis(imageDiskPath), which looks at the file name only.
ReturnMock ==
  /\ vision.pc = "mock"
  /\ vision' = [vision EXCEPT !.pc = "done", !.result = "mock",
                               !.title = getMockAnalysis(vision.fileName)]
  /\ UNCHANGED <<now, fs, museums, artworks, clipModel, reqs, ups, pure, dels>>

\* ------------------------------------------- direct calls of services/clip.ts

\* Candidate lists have at most MaxCandidates entries, topN is at most MaxTopN.
MaxCandidates == 3
MaxTopN == 4

VecZero == <<0, 0, 0, 0>>

ClipVectors == {VecA, VecB, VecC, VecQ, VecT, VecZero, VecNeg, VecStale, <<>>}

StoredEmbeddings == {{}, {<<>>}, {VecA}, {VecB}, {VecC}, {VecStale}}

CandidateLists ==
  UNION {{[i \in 1..n |-> Doc(i, "m1", e[i])] : e \in [1..n -> StoredEmbeddings]}
         : n \in 0..MaxCandidates}

ClipCalls ==
  {[PureIdle EXCEPT !.stage = "cosineSimilarity", !.a = a, !.b = b]
     : a \in ClipVectors, b \in ClipVectors}
  \cup
  {[PureIdle EXCEPT !.stage = "findBestMatches", !.a = q, !.artworks = c,
                    !.topN = k]
     : q \in {VecA, VecQ}, c \in CandidateLists, k \in 0..MaxTopN}

InitClip ==
  /\ now = 0
  /\ fs = [p \in Paths |-> NoFile]
  /\ museums = MuseumIds
  /\ artworks = <<>>
  /\ clipModel = "null"
  /\ reqs = [r \in Requests |-> IdleRequest]
  /\ ups = [u \in Uploads |-> IdleUpload]
  /\ dels = [d \in Deletes |-> IdleDelete]
  /\ vision = VisionIdle
  /\ pure \in ClipCalls

CallCosineSimilarity ==
  /\ pure.stage = "cosineSimilarity"
  /\ pure' = [pure EXCEPT !.stage = "returned",
                          !.sim = cosineSimilarity(pure.a, pure.b)]
  /\ UNCHANGED <<now, fs, museums, artworks, clipModel, reqs, ups, dels, vision>>

CallFindBestMatches ==
  /\ pure.stage = "findBestMatches"
  /\ pure' = [pure EXCEPT !.stage = "ranked",
                          !.ranked = findBestMatches(pure.a, pure.artworks,
                                                     pure.topN)]
  /\ UNCHANGED <<now, fs, museums, artworks, clipModel, reqs, ups, dels, vision>>

\* --------------------------------------------------------- specifications

\* Two visitors identify concurrently.
Next == Tick \/ \E r \in Requests : Identify(r)

Spec == Init /\ [][Next]_vars

\* One visitor identifies while an admin uploads.
NextCatalog == Identify("r1") \/ \E u \in Uploads : Upload(u)

SpecCatalog == Init /\ [][NextCatalog]_vars

\* One visitor whose client may go away at any moment of the request.
NextCancel == Identify("r1") \/ Disconnect("r1")

SpecCancel == Init /\ [][NextCancel]_vars

\* An admin upload and a museum delete run concurrently.
NextAdmin ==
  \/ \E u \in Uploads : Upload(u)
  \/ \E d \in Deletes : DeleteMuseum(d)

SpecAdmin == InitAdmin /\ [][NextAdmin]_vars

\* A call of recognizeArtworkFromImage.
NextVision == TryClaude \/ TryOpenAI \/ TryHuggingFace \/ ReturnMock

SpecVision == InitVision /\ [][NextVision]_vars

\* Direct calls of cosineSimilarity and findBestMatches.
NextClip == CallCosineSimilarity \/ CallFindBestMatches

SpecClip == InitClip /\ [][NextClip]_vars

\* ------------------------------------------------------------------ claims

Done(r) == reqs[r].pc = "done"

\* The photo request r stored is still in visitor_temp.
HoldsPhoto(r) == \E p \in reqs[r].filePath : fs[p] = r

\* The museum a :qrCode parameter stands for.
MuseumOfQr(qr) ==
  IF qr = "Louvre-Paris-1234" THEN "m1"
  ELSE IF qr = "prado-madrid-5678" THEN "m2"
  ELSE ""

DocById(id) == CHOOSE i \in 1..Len(artworks) : artworks[i].id = id

IsMatchResponse(resp) == "bestMatch" \in resp.fields

\* C1: once an identify request that stored its photo has finished, on any
\* exit path, the photo is no longer in the transient location.
C1_TransientFileGoneOnEveryExit ==
  \A r \in Requests : (Done(r) /\ reqs[r].hasFile) => ~HoldsPhoto(r)

\* An embedding failure is answered by { error } with status 500: no
\* success, confident, bestMatch or alternatives field.
EmbeddingErrorShape(resp) ==
  /\ resp.status = 500
  /\ resp.fields = {"error"}
  /\ \A m \in MuseumIds : resp # NoCandidatesResponse(m)
  /\ ~IsMatchResponse(resp)

C3_MuseumIsolation ==
  \A r \in Requests :
    LET m == MuseumOfQr(reqs[r].qrCode)
        returned == {reqs[r].response.bestMatch[i].id :
                       i \in 1..Len(reqs[r].response.bestMatch)}
                    \cup {reqs[r].response.alternatives[i].id :
                            i \in 1..Len(reqs[r].response.alternatives)}
    IN \A id \in reqs[r].compared \cup returned :
         artworks[DocById(id)].museumId = m

\* A match that compared the artwork uploaded meanwhile, with an indexed
\* artwork of another museum in the catalogue.
C3_Witness ==
  \E r \in Requests :
    /\ Done(r) /\ IsMatchResponse(reqs[r].response)
    /\ ups["u1"].status = 200
    /\ Len(artworks) \in reqs[r].compared
    /\ \E i \in 1..Len(artworks) :
         /\ artworks[i].museumId # MuseumOfQr(reqs[r].qrCode)
         /\ HasEmbedding(artworks[i])

NoIndexedArtworks(m) ==
  \A i \in 1..Len(artworks) :
    artworks[i].museumId = m => ~HasEmbedding(artworks[i])

\* C4: for a resolved museum without any artwork that has an embedding, a
\* request whose catalogue read returns is answered by the no-candidates
\* response (success false, an error text, the museum), and no response to
\* it carries confident, bestMatch or alternatives.
C4_NoCandidatesIsDistinct ==
  \A r \in Requests :
    (Done(r) /\ reqs[r].museum # "" /\ NoIndexedArtworks(reqs[r].museum)) =>
      LET resp == reqs[r].response
      IN /\ resp.fields \cap {"confident", "bestMatch", "alternatives"} = {}
         /\ \/ /\ resp.status = 200
               /\ resp.fields = {"success", "error", "museum"}
               /\ resp.success = FALSE
               /\ resp.error # ""
               /\ resp.museum = reqs[r].museum
            \/ resp = ErrorResponse(500, "database unavailable")

C4_Witness ==
  \E r \in Requests :
    /\ Done(r) /\ reqs[r].museum # "" /\ NoIndexedArtworks(reqs[r].museum)
    /\ reqs[r].response.status = 200
    /\ \E i \in 1..Len(artworks) : artworks[i].museumId = reqs[r].museum

\* The dot product of the query with the top match and the product of the
\* two squared magnitudes.
TopDot(r) ==
  SumProducts(reqs[r].visitorEmbedding,
              EmbeddingOf(reqs[r].matches[1].artwork),
              Len(reqs[r].visitorEmbedding))

TopMagnitudes(r) ==
  LET q == reqs[r].visitorEmbedding
      e == EmbeddingOf(reqs[r].matches[1].artwork)
  IN SumProducts(q, q, Len(q)) * SumProducts(e, e, Len(e))

RankedCall == pure.stage = "ranked"

\* The positions of the candidates that carry a non-empty embedding.
WithEmbedding ==
  {i \in 1..Len(pure.artworks) :
     /\ pure.artworks[i].imageEmbedding # {}
     /\ pure.artworks[i].imageEmbedding # {<<>>}}

\* The candidates whose embedding differs in length from the query.
Mismatched ==
  {i \in WithEmbedding :
     \E v \in pure.artworks[i].imageEmbedding : Len(v) # Len(pure.a)}

\* C7: findBestMatches returns no artwork whose imageEmbedding is absent or
\* empty, at most as many entries as candidates carry an embedding, and it
\* throws only when a candidate with an embedding has another length than
\* the query: entries without an embedding never make it fail.
C7_EntriesWithoutEmbeddingFiltered ==
  RankedCall =>
    /\ pure.ranked.threw => Mismatched # {}
    /\ Len(pure.ranked.value) <= Cardinality(WithEmbedding)
    /\ \A k \in 1..Len(pure.ranked.value) :
         pure.ranked.value[k].artwork.id \in WithEmbedding

\* Candidates with an absent, an empty and a stored embedding, ranked.
C7_Witness ==
  /\ RankedCall /\ ~pure.ranked.threw
  /\ \E i \in 1..Len(pure.artworks) : pure.artworks[i].imageEmbedding = {}
  /\ \E i \in 1..Len(pure.artworks) : pure.artworks[i].imageEmbedding = {<<>>}
  /\ Len(pure.ranked.value) = 1
  /\ pure.topN >= 1

\* C8: the returned sequence is in descending score order, and entries of
\* equal score are in the order they had in the input list.
C8_DescendingAndStable ==
  RankedCall =>
    \A i, j \in 1..Len(pure.ranked.value) :
      i < j =>
        LET x == pure.ranked.value[i]
            y == pure.ranked.value[j]
        IN /\ ScoreCompare(x.score, y.score) >= 0
           /\ x.score = y.score => x.artwork.id < y.artwork.id

\* A ranking with a tie behind a higher score.
C8_Witness ==
  /\ RankedCall
  /\ Len(pure.ranked.value) = 3
  /\ ScoreCompare(pure.ranked.value[1].score, pure.ranked.value[2].score) > 0
  /\ pure.ranked.value[2].score = pure.ranked.value[3].score

\* C9: for every query, candidate list and topK >= 0 findBestMatches
\* returns, without error, at most min(topK, |C|) entries, none scoring
\* below a candidate left out, and the empty sequence for topK = 0.
C9_TopKWithoutError ==
  RankedCall =>
    /\ ~pure.ranked.threw
    /\ Len(pure.ranked.value) <= Min(pure.topN, Len(pure.artworks))
    /\ pure.topN = 0 => pure.ranked.value = <<>>
    /\ \A k \in 1..Len(pure.ranked.value) :
         \A i \in WithEmbedding \ {pure.ranked.value[n].artwork.id :
                                      n \in 1..Len(pure.ranked.value)} :
           ScoreCompare(pure.ranked.value[k].score,
                        cosineSimilarity(pure.a,
                          EmbeddingOf(pure.artworks[i])).value) >= 0

\* C10: cosineSimilarity of two vectors of different lengths throws.
C10_DifferentLengthsThrow ==
  (pure.stage = "returned" /\ Len(pure.a) # Len(pure.b)) => pure.sim.threw

\* Two non-empty vectors of different lengths.
C10_Witness ==
  /\ pure.stage = "returned"
  /\ Len(pure.a) # Len(pure.b)
  /\ Len(pure.a) > 0 /\ Len(pure.b) > 0
  /\ pure.sim.threw

\* ------------------------------------------------ claims on the whole request

\* The embedding of the photo was obtained: steps 1-4 succeeded.
Embedded(r) == reqs[r].visitorEmbedding # <<>>

\* The candidates of request r whose stored embedding has the length of the
\* query vector, and those whose length differs.
SameLengthCandidates(r) ==
  {i \in 1..Len(reqs[r].artworks) :
     \E v \in reqs[r].artworks[i].imageEmbedding :
       Len(v) = Len(reqs[r].visitorEmbedding)}

OtherLengthCandidates(r) ==
  {i \in 1..Len(reqs[r].artworks) :
     \E v \in reqs[r].artworks[i].imageEmbedding :
       Len(v) # Len(reqs[r].visitorEmbedding)}

ReturnedIds(resp) ==
  {resp.bestMatch[i].id : i \in 1..Len(resp.bestMatch)}
  \cup {resp.alternatives[i].id : i \in 1..Len(resp.alternatives)}

\* C11: once the photo is embedded the request is answered by a match
\* result, whatever the lengths of the stored embeddings: a candidate of
\* another length than the query is left out, and the result is computed
\* from the others (the best of them is bestMatch).
C11_MismatchedCandidateExcluded ==
  \A r \in Requests :
    (Done(r) /\ Embedded(r)) =>
      /\ IsMatchResponse(reqs[r].response)
      /\ \A i \in OtherLengthCandidates(r) :
           reqs[r].artworks[i].id \notin ReturnedIds(reqs[r].response)
      /\ SameLengthCandidates(r) # {} => Len(reqs[r].response.bestMatch) = 1

\* The calls of pipeline(...) that have not settled yet.
PipelineCallsInFlight ==
  Cardinality({r \in Requests : reqs[r].pc = "loadModel"})
  + Cardinality({u \in Uploads : ups[u].pc = "loadModel"})

\* C13: the model is initialised at most once: no two calls of pipeline(...)
\* are ever under way together, and none is under way once the singleton
\* is set, however many generateImageEmbedding calls start concurrently.
C13_ModelInitialisedAtMostOnce ==
  /\ PipelineCallsInFlight <= 1
  /\ clipModel = "loaded" => PipelineCallsInFlight = 0

\* C14: a request whose QR code is no museum's never loads catalogue
\* entries, never invokes the embedding provider and gets no match result;
\* once its museum lookup has returned, it ends with 404 'Museum not found'.
C14_UnknownMuseumNotFound ==
  \A r \in Requests :
    (reqs[r].pc # "idle" /\ MuseumOfQr(reqs[r].qrCode) = "") =>
      /\ reqs[r].pc \in {"connect", "findMuseum", "done"}
      /\ reqs[r].museum = ""
      /\ reqs[r].artworks = <<>>
      /\ reqs[r].steps \in {<<"acquire">>, <<"acquire", "respond", "cleanup">>}
      /\ ~Embedded(r) /\ reqs[r].compared = {} /\ ~reqs[r].embedFailed
      /\ ~IsMatchResponse(reqs[r].response)
      /\ (Done(r) /\ reqs[r].tempFilePath # {}
            /\ reqs[r].response # ErrorResponse(500, "database unavailable")) =>
           reqs[r].response = ErrorResponse(404, "Museum not found")

\* An unknown QR code answered 404, its photo removed.
C14_Witness ==
  \E r \in Requests :
    /\ Done(r) /\ MuseumOfQr(reqs[r].qrCode) = ""
    /\ reqs[r].response = ErrorResponse(404, "Museum not found")
    /\ reqs[r].cleanup = "deleted"

\* C15: every step of an identify handler leaves the museums and the
\* artworks as they are, and changes the transient directory at most by
\* removing the file at the path of its own upload.
C15_IdentifyOnlyRemovesItsUpload ==
  [][\A r \in Requests :
       (reqs[r].pc # "idle" /\ reqs'[r] # reqs[r]) =>
         /\ museums' = museums
         /\ artworks' = artworks
         /\ \A p \in Paths :
              fs'[p] # fs[p] => (p \in reqs[r].filePath /\ fs'[p] = NoFile)]_vars

\* A request has finished and removed its photo while the photo of the
\* other request is still stored.
C15_Witness ==
  \E r, o \in Requests :
    /\ r # o
    /\ Done(r) /\ reqs[r].cleanup = "deleted" /\ IsMatchResponse(reqs[r].response)
    /\ HoldsPhoto(o)
    /\ artworks \in InitCatalogs

\* The place of a step in the order Acquire, Resolve Scope, Load Candidates,
\* Embed, Rank, Classify, Cleanup, Respond.
StepOrder ==
  <<"acquire", "resolveScope", "loadCandidates", "embed", "rank", "classify",
    "cleanup", "respond">>

StepPlace(step) == CHOOSE k \in 1..Len(StepOrder) : StepOrder[k] = step

\* C16: the steps a request has taken are in the order Acquire, Resolve
\* Scope, Load Candidates, Embed, Rank, Classify, Cleanup, Respond: no rank
\* before the embedding, no classification before the ranking, and the
\* response only after the cleanup.
C16_StepsInOrder ==
  \A r \in Requests :
    \A i, j \in 1..Len(reqs[r].steps) :
      i < j => StepPlace(reqs[r].steps[i]) < StepPlace(reqs[r].steps[j])

\* C17: a request whose client disconnected after the photo was stored
\* ends with the photo removed from the transient directory.
C17_DisconnectLeavesNoFile ==
  \A r \in Requests :
    (Done(r) /\ reqs[r].disconnected /\ reqs[r].hasFile) => ~HoldsPhoto(r)

\* The artworks of museum m that have a non-empty embedding.
IndexedArtworks(m) ==
  {i \in 1..Len(artworks) :
     /\ artworks[i].museumId = m
     /\ artworks[i].imageEmbedding # {}
     /\ artworks[i].imageEmbedding # {<<>>}}

\* C18: every response for a resolved museum, match result or no-candidates
\* result, carries the museum and the total candidate count, and the count
\* is the number of the museum's artworks with an embedding (0 when the
\* museum has none).
C18_MuseumAndTotalInEveryResult ==
  \A r \in Requests :
    (Done(r) /\ reqs[r].museum # "" /\ reqs[r].response.status = 200) =>
      /\ {"museum", "totalArtworks"} \subseteq reqs[r].response.fields
      /\ reqs[r].response.museum = reqs[r].museum
      /\ reqs[r].response.totalArtworks
           = Cardinality(IndexedArtworks(reqs[r].museum))

\* The error texts of the failures that precede the cleanup.
UpstreamErrors ==
  {"database unavailable", "Image file not found", "model load failed",
   "embedding failed", "Embeddings must have the same dimensions"}

\* C19: when the unlink of the photo fails, the request has the response
\* its earlier steps determined: the match result after a classification,
\* the no-candidates result after an empty catalogue read, and an error
\* response only with the error of an earlier step.
C19_CleanupFailureNotEscalated ==
  \A r \in Requests :
    (Done(r) /\ reqs[r].cleanup = "failed") =>
      LET resp == reqs[r].response
          classified == \E i \in 1..Len(reqs[r].steps) :
                          reqs[r].steps[i] = "classify"
          loaded == \E i \in 1..Len(reqs[r].steps) :
                      reqs[r].steps[i] = "loadCandidates"
      IN /\ classified =>
              /\ resp.status = 200 /\ resp.success /\ IsMatchResponse(resp)
              /\ resp.bestMatch[1].id = reqs[r].matches[1].artwork.id
         /\ (loaded /\ reqs[r].artworks = <<>>) =>
              resp = NoCandidatesResponse(reqs[r].museum)
         /\ resp.status \in {200, 404, 500}
         /\ resp.status = 404 => resp = ErrorResponse(404, "Museum not found")
         /\ resp.status = 500 =>
              /\ ~classified
              /\ resp.fields = {"error"}
              /\ resp.error \in UpstreamErrors

\* A match result delivered although the unlink failed and the photo stays.
C19_Witness ==
  \E r \in Requests :
    /\ Done(r) /\ reqs[r].cleanup = "failed"
    /\ IsMatchResponse(reqs[r].response) /\ reqs[r].response.status = 200
    /\ HoldsPhoto(r)

\* ------------------------------------------- claims on services/clip.ts

IsZeroVector(v) == Len(v) > 0 /\ \A i \in 1..Len(v) : v[i] = 0

CosineCall == pure.stage = "returned"

\* C12 as claimed: with an all-zero vector as either argument
\* cosineSimilarity returns 0, whatever the other argument, and never throws.
C12_ZeroVectorAsClaimed ==
  (CosineCall /\ (IsZeroVector(pure.a) \/ IsZeroVector(pure.b))) =>
    /\ ~pure.sim.threw
    /\ pure.sim.value = ZeroScore

\* C12: with an all-zero vector as either argument and the other argument of
\* the same length, cosineSimilarity returns 0 and does not throw.
C12_ZeroVectorSameLength ==
  (/\ CosineCall
   /\ IsZeroVector(pure.a) \/ IsZeroVector(pure.b)
   /\ Len(pure.a) = Len(pure.b)) =>
    /\ ~pure.sim.threw
    /\ pure.sim.value = ZeroScore

\* The zero vector against a non-zero vector, in both positions.
C12_Witness ==
  /\ CosineCall
   /\ \/ IsZeroVector(pure.a) /\ ~IsZeroVector(pure.b)
      \/ IsZeroVector(pure.b) /\ ~IsZeroVector(pure.a)
  /\ Len(pure.a) = Len(pure.b)
  /\ pure.sim = Returned(ZeroScore)

\* C20: for two vectors of equal length cosineSimilarity returns a score
\* between 0 and 1 inclusive, and the percentage Math.round(score * 100)
\* shown as matchScore lies in 0..100.
C20_ScoreBetweenZeroAndOne ==
  (CosineCall /\ Len(pure.a) = Len(pure.b)) =>
    /\ ~pure.sim.threw
    /\ pure.sim.value.sgn >= 0
    /\ pure.sim.value.num <= pure.sim.value.den
    /\ RoundPercent(pure.sim.value) \in 0..100

\* --------------------------------------- claims on the identify response

\* The score of the top match of request r.
TopScore(r) == reqs[r].matches[1].score

\* C21: a match result is reported confident only when the best score is
\* above 85 percent; with a best score of 85 percent or less it is reported
\* as uncertain.
C21_ConfidentOnlyAbove85 ==
  \A r \in Requests :
    (Done(r) /\ IsMatchResponse(reqs[r].response) /\ reqs[r].matches # <<>>) =>
      (reqs[r].response.confident =>
         ScoreCompare(TopScore(r), RatioScore(85, 100)) > 0)

\* The handler of request r is running: its photo is stored and it has
\* not responded yet.
InHandler(r) == reqs[r].pc \notin {"idle", "done"}

\* C24: two requests handled at the same time have different transient
\* paths, and the photo of a request that has yet to embed it is still the
\* file at its path (not deleted, not overwritten by the other request).
C24_DistinctTransientPaths ==
  \A r, o \in Requests :
    /\ (r # o /\ InHandler(r) /\ InHandler(o)) =>
         reqs[r].filePath \cap reqs[o].filePath = {}
    /\ (InHandler(r) /\ reqs[r].hasFile) => HoldsPhoto(r)

\* C25: a response with success = true has a bestMatch: no request ends
\* with a non-empty catalogue read, an empty ranking and bestMatch null.
C25_SuccessHasBestMatch ==
  \A r \in Requests :
    (Done(r) /\ reqs[r].response.success) =>
      /\ Len(reqs[r].response.bestMatch) = 1
      /\ reqs[r].matches # <<>>
      /\ reqs[r].artworks # <<>>

\* A match found in a museum that also owns an artwork stored without an
\* embedding by an upload whose embedding generation failed.
C25_Witness ==
  \E r \in Requests :
    /\ Done(r) /\ reqs[r].response.success
    /\ Len(reqs[r].response.bestMatch) = 1
    /\ \E i \in 1..Len(artworks) :
         /\ artworks[i].museumId = reqs[r].museum
         /\ artworks[i].imageEmbedding = {<<>>}

\* C28: for a resolved museum without any artwork that has an embedding the
\* handler never starts the model load or the inference, records no
\* embedding failure, and once its catalogue read has returned it ends with
\* the no-candidates response.
C28_NoCandidatesWithoutProvider ==
  \A r \in Requests :
    (reqs[r].museum # "" /\ NoIndexedArtworks(reqs[r].museum)) =>
      /\ reqs[r].pc \in {"findArtworks", "done"}
      /\ ~Embedded(r) /\ ~reqs[r].embedFailed
      /\ \A i \in 1..Len(reqs[r].steps) : reqs[r].steps[i] # "embed"
      /\ (Done(r) /\ \E i \in 1..Len(reqs[r].steps) :
                       reqs[r].steps[i] = "loadCandidates") =>
           reqs[r].response = NoCandidatesResponse(reqs[r].museum)

\* The no-candidates response while the model was never loaded.
C28_Witness ==
  \E r \in Requests :
    /\ Done(r)
    /\ reqs[r].response = NoCandidatesResponse(reqs[r].museum)
    /\ reqs[r].museum # ""
    /\ clipModel = "null"

\* C29: a failing model load leaves the singleton as it was (unset unless
\* another call has set it meanwhile), the failing call ends in the error
\* response of an embedding failure, the singleton is never anything but
\* unset or the loaded model, and every call that finds it unset starts a
\* load of its own.
C29_FailedLoadLeavesSingletonUnset ==
  [][/\ clipModel' \in {"null", "loaded"}
     /\ \A r \in Requests :
          /\ (reqs[r].pc = "loadModel" /\ reqs'[r].pc = "done") =>
               /\ clipModel' = clipModel
               /\ reqs'[r].embedFailed
               /\ reqs'[r].response.status = 500
               /\ ~Embedded(r)'
          /\ (reqs[r].pc = "findArtworks"
                /\ reqs'[r].pc \in {"loadModel", "inference"}) =>
               (reqs'[r].pc = "loadModel" <=> clipModel = "null")
          /\ reqs'[r].pc = "inference" => clipModel' = "loaded"]_vars

\* One call has failed to load the model, the singleton is unset and
\* another call is loading it.
C29_Witness ==
  \E r, o \in Requests :
    /\ Done(r) /\ reqs[r].response = ErrorResponse(500, "model load failed")
    /\ clipModel = "null"
    /\ reqs[o].pc = "loadModel"

\* C30: in a match response the bestMatch scores at least as much as every
\* alternative, the alternatives are in non-increasing score order, there
\* are at most 2 of them, and no artwork is returned twice.
C30_BestFirstNoDuplicates ==
  \A r \in Requests :
    (Done(r) /\ IsMatchResponse(reqs[r].response)) =>
      LET resp == reqs[r].response
          all == resp.bestMatch \o resp.alternatives
      IN /\ Len(resp.alternatives) <= 2
         /\ Len(resp.bestMatch) <= 1
         /\ Len(all) = Len(reqs[r].matches)
         /\ \A i, j \in 1..Len(all) :
              i < j =>
                /\ all[i].id # all[j].id
                /\ all[i].matchScore >= all[j].matchScore
                /\ all[i].id = reqs[r].matches[i].artwork.id
                /\ ScoreCompare(reqs[r].matches[i].score,
                                reqs[r].matches[j].score) >= 0

\* Two alternatives behind a strictly better bestMatch.
C30_Witness ==
  \E r \in Requests :
    /\ Done(r) /\ IsMatchResponse(reqs[r].response)
    /\ Len(reqs[r].response.alternatives) = 2
    /\ reqs[r].response.bestMatch[1].matchScore
         > reqs[r].response.alternatives[1].matchScore

\* ------------------------------------------- claims on the admin upload

\* The artwork a successful upload has created: the last one inserted.
CreatedBy(u) == artworks[Len(artworks)]

\* C27: the artwork an upload creates has an imageEmbedding that is absent
\* or a non-empty vector, never an empty array; it is absent when the
\* embedding generation failed; and such an artwork is never among the
\* candidates of an identify request.
C27_UploadStoresAbsentOrVector ==
  \A u \in Uploads :
    ups[u].status = 200 =>
      /\ CreatedBy(u).imageEmbedding = {} \/ HasEmbedding(CreatedBy(u))
      /\ ups[u].imageEmbedding = <<>> => CreatedBy(u).imageEmbedding = {}
      /\ ~HasEmbedding(CreatedBy(u)) =>
           \A r \in Requests :
             \A i \in 1..Len(reqs[r].artworks) :
               reqs[r].artworks[i].id # CreatedBy(u).id

\* ------------------------------------------- claims on the museum delete

Owned(m) == {i \in 1..Len(artworks) : artworks[i].museumId = m}

\* C22: a DELETE on a museum that owns an artwork is rejected with an error
\* and leaves the museum and the artworks in place: a delete request never
\* changes the artworks, answers success only when it removed its museum,
\* and removes only a museum that owns no artwork at that moment.
C22_DeleteOnlyEmptyMuseum ==
  [][\A d \in Deletes :
       dels'[d] # dels[d] =>
         /\ artworks' = artworks
         /\ museums' \in {museums, museums \ {dels[d].museumId}}
         /\ Owned(dels[d].museumId) # {} =>
              /\ museums' = museums
              /\ dels'[d].pc = "done" => dels'[d].status \in {400, 500}]_vars

\* C26: every stored artwork's museumId is the id of a stored museum.
C26_ArtworkMuseumExists ==
  \A i \in 1..Len(artworks) : artworks[i].museumId \in museums

\* --------------------------------- claims on recognizeArtworkFromImage

\* The providers attempted are configured ones, in priority order.
AttemptsInPriorityOrder ==
  /\ \A i \in 1..Len(vision.attempts) : vision.attempts[i] \in vision.keys
  /\ \A i, j \in 1..Len(vision.attempts) :
       i < j =>
         \E a, b \in 1..Len(Providers) :
           /\ a < b
           /\ Providers[a] = vision.attempts[i]
           /\ Providers[b] = vision.attempts[j]

\* C23: providers are attempted in the order Claude, OpenAI, Hugging Face,
\* each only if configured and only after every attempted one before it
\* failed; the first result ends the chain; and when every configured
\* provider has failed the call returns the mock analysis and raises
\* no error.
C23_ProviderChainEndsInMock ==
  /\ AttemptsInPriorityOrder
  /\ \A i \in 1..(Len(vision.attempts) - 1) : vision.attempts[i] \in vision.failed
  /\ vision.pc = "done" =>
       /\ ~vision.threw
       /\ vision.keys \subseteq vision.failed <=>
            /\ vision.result = "mock"
            /\ vision.title = getMockAnalysis(vision.fileName)
       /\ vision.result # "mock" =>
            /\ vision.result = vision.attempts[Len(vision.attempts)]
            /\ vision.result \notin vision.failed

====
